---------------------------- MODULE Spec2Model ----------------------------
(***************************************************************************)
(* Model of the daily-ops monitoring pipeline:                             *)
(*   build_daily_kpi.py   - the metric aggregator with calendar-gap fill   *)
(*   detect_anomalies.py  - rolling baseline, classifier, replay cursor    *)
(*                                                                         *)
(* Numbers.  Metric values are integers.  A baseline is the exact rational *)
(* sum/ROLLING_DAYS, a percentage change is an exact rational n/d, and a   *)
(* threshold is held in hundredths (0.15 is 15).  For integer metrics the  *)
(* float comparisons of the source agree with the exact ones at and around *)
(* every threshold it tests.                                               *)
(*                                                                         *)
(* Dates.  A datetime is the ordinal of the day in 2017 (1 = 2017-01-01);  *)
(* an ISO date string is the tuple <<year, month, day>>, whose tuple order *)
(* is the lexicographic order of the zero-padded text.                     *)
(***************************************************************************)
EXTENDS Integers, Sequences, FiniteSets, TLC

\* ------------------------------------------------------------------ bounds
\* Longest run of rows after the seven baseline rows of an input table.
MaxEval == 3
\* Latest reading of the wall clock (datetime.now(), in seconds).
MaxClock == 1
\* Largest number of order records given to the aggregator.
MaxOrders == 3
\* Purchase days span at most MaxSpan days after the first possible day.
MaxSpan == 3

\* Completed detector invocations explored: two full replay cycles and one more.
MaxRuns == 2 * MaxEval + 1

\* --------------------------------------------------------------- constants
ROLLING_DAYS == 7
TH_revenue_drop_medium == 15
TH_revenue_drop_high == 25
TH_orders_drop_medium == 12
TH_orders_drop_high == 20
TH_aov_drop_medium == 15
TH_aov_drop_high == 25
TH_cancel_spike_medium == 60
TH_cancel_spike_high == 120

\* SIM_START_DATE = "2017-01-12"
SIM_START_DATE == <<2017, 1, 12>>

\* ------------------------------------------------------------------- dates
\* Timestamp.strftime("%Y-%m-%d") for a day of January or February 2017.
Strftime(day) ==
    IF day <= 31 THEN <<2017, 1, day>> ELSE <<2017, 2, day - 31>>

\* pd.to_datetime of an ISO date string (0 stands for NaT, errors="coerce").
ToDatetime(s) ==
    IF s[1] = 2017 /\ s[2] = 1 /\ s[3] \in 1..31 THEN s[3]
    ELSE IF s[1] = 2017 /\ s[2] = 2 /\ s[3] \in 1..28 THEN 31 + s[3]
    ELSE 0

\* Order of two ISO date strings as text.
StrLess(a, b) ==
    \/ a[1] < b[1]
    \/ a[1] = b[1] /\ a[2] < b[2]
    \/ a[1] = b[1] /\ a[2] = b[2] /\ a[3] < b[3]

\* --------------------------------------------------------------- rationals
NaN == [def |-> FALSE, n |-> 0, d |-> 1]
Rat(n, d) == [def |-> TRUE, n |-> n, d |-> d]
Abs(x) == IF x < 0 THEN 0 - x ELSE x

\* Floor of a / b for b > 0.
FloorDiv(a, b) == IF a >= 0 THEN a \div b ELSE 0 - ((0 - a + b - 1) \div b)

\* Python round(): nearest integer of a / b (b > 0), ties to the even one.
PyRound(a, b) ==
    LET q == FloorDiv(a, b)
        r == a - q * b
    IN  IF 2 * r < b THEN q
        ELSE IF 2 * r > b THEN q + 1
        ELSE IF q % 2 = 0 THEN q ELSE q + 1

\* Mutant of LeqNeg: the threshold itself no longer triggers.
LeqNeg_Strict(r, t) == r.n * 100 < (0 - t) * r.d

\* r <= -t/100, r >= t/100 and abs(r) >= t/100 for a rational r with r.d > 0.
LeqNeg(r, t) == r.n * 100 <= (0 - t) * r.d
Geq(r, t) == r.n * 100 >= t * r.d
AbsGeq(r, t) == Abs(r.n) * 100 >= t * r.d

RECURSIVE SumRange(_, _, _)
\* s[a] + ... + s[b]
SumRange(s, a, b) == IF a > b THEN 0 ELSE s[b] + SumRange(s, a, b - 1)


\* ------------------------------------------------------- detect_anomalies.py
Metrics == <<"orders_count", "revenue", "canceled_orders", "avg_order_value">>

\* Mutant of pct_change: a zero baseline is replaced by the smallest positive
\* one instead of giving 0.0.
pct_change_NoZeroGuard(today, baseline) ==
    IF ~baseline.def THEN Rat(0, 1)
    ELSE IF baseline.n = 0 THEN Rat(today * baseline.d - 1, 1)
    ELSE IF baseline.n > 0
         THEN Rat(today * baseline.d - baseline.n, baseline.n)
         ELSE Rat(baseline.n - today * baseline.d, 0 - baseline.n)

\* pct_change(today, baseline): 0.0 for a zero or NaN baseline, else the ratio
\* (today - baseline) / baseline, kept with a positive denominator.
pct_change(today, baseline) ==
    IF (baseline.def /\ baseline.n = 0) \/ ~baseline.def THEN Rat(0, 1)
    ELSE IF baseline.n > 0
         THEN Rat(today * baseline.d - baseline.n, baseline.n)
         ELSE Rat(baseline.n - today * baseline.d, 0 - baseline.n)

\* df[col].rolling(ROLLING_DAYS).mean(): NaN until ROLLING_DAYS rows are in the
\* window, then the mean of the window that ends at the row itself.
RollingMean(s) ==
    [i \in 1..Len(s) |->
        IF i < ROLLING_DAYS THEN NaN
        ELSE Rat(SumRange(s, i - ROLLING_DAYS + 1, i), ROLLING_DAYS)]

\* Series.shift(1): every value moves one row down, the first row gets NaN.
Shift1(s) == [i \in 1..Len(s) |-> IF i = 1 THEN NaN ELSE s[i - 1]]

\* Mutant of BaseColumn: the shift is lost, so the window ends at the row itself.
BaseColumn_NoShift(s) == RollingMean(s)

\* base_<col> of every row of a table whose col values are s.
BaseColumn(s) == Shift1(RollingMean(s))

\* Whether row a sorts before row b in sort_values("date") (NaT sorts last).
DateBefore(a, b) == a.date # 0 /\ (b.date = 0 \/ a.date < b.date)

RECURSIVE SortByDate(_)
\* df.sort_values("date").reset_index(drop=True), as an insertion sort.
SortByDate(rows) ==
    IF Len(rows) <= 1 THEN rows
    ELSE LET rest == SortByDate(Tail(rows))
             x == Head(rows)
             k == Cardinality({i \in 1..Len(rest) : DateBefore(rest[i], x)})
         IN  SubSeq(rest, 1, k) \o <<x>> \o SubSeq(rest, k + 1, Len(rest))

\* Lines 69-74: parse the dates, sort, and add the four base_ columns.
WithBaselines(rows) ==
    LET parsed == [i \in 1..Len(rows) |->
                     [rows[i] EXCEPT !.date = ToDatetime(rows[i].date)]]
        df == SortByDate(parsed)
        col(c) == [i \in 1..Len(df) |-> df[i][c]]
        bo == BaseColumn(col("orders_count"))
        br == BaseColumn(col("revenue"))
        bc == BaseColumn(col("canceled_orders"))
        ba == BaseColumn(col("avg_order_value"))
    IN  [i \in 1..Len(df) |->
            [date |-> df[i].date,
             orders_count |-> df[i].orders_count,
             revenue |-> df[i].revenue,
             canceled_orders |-> df[i].canceled_orders,
             avg_order_value |-> df[i].avg_order_value,
             base_orders_count |-> bo[i],
             base_revenue |-> br[i],
             base_canceled_orders |-> bc[i],
             base_avg_order_value |-> ba[i]]]

\* Lines 76-81: rows with all four baselines, on or after SIM_START_DATE.
Candidates(rows) ==
    LET df == WithBaselines(rows)
        hasBase(r) == /\ r.base_orders_count.def
                      /\ r.base_revenue.def
                      /\ r.base_canceled_orders.def
                      /\ r.base_avg_order_value.def
        dropna == SelectSeq(df, hasBase)
        onOrAfter(r) == r.date # 0 /\ r.date >= ToDatetime(SIM_START_DATE)
    IN  SelectSeq(dropna, onOrAfter)

\* One signal dictionary; details carries round(change * 100).
Signal(metric, direction, sev, change) ==
    [metric |-> metric, direction |-> direction, severity |-> sev,
     details |-> PyRound(change.n * 100, change.d)]

\* Lines 98-109.
RevenueSignals(row) ==
    LET rev_change == pct_change(row.revenue, row.base_revenue)
    IN  IF LeqNeg(rev_change, TH_revenue_drop_medium)
        THEN <<Signal("revenue", "down",
                      IF AbsGeq(rev_change, TH_revenue_drop_high)
                      THEN "high" ELSE "medium", rev_change)>>
        ELSE <<>>

\* Lines 111-122.
OrdersSignals(row) ==
    LET ord_change == pct_change(row.orders_count, row.base_orders_count)
    IN  IF LeqNeg(ord_change, TH_orders_drop_medium)
        THEN <<Signal("orders", "down",
                      IF AbsGeq(ord_change, TH_orders_drop_high)
                      THEN "high" ELSE "medium", ord_change)>>
        ELSE <<>>

\* Lines 124-135.
AovSignals(row) ==
    LET aov_change == pct_change(row.avg_order_value, row.base_avg_order_value)
    IN  IF LeqNeg(aov_change, TH_aov_drop_medium)
        THEN <<Signal("avg_order_value", "down",
                      IF AbsGeq(aov_change, TH_aov_drop_high)
                      THEN "high" ELSE "medium", aov_change)>>
        ELSE <<>>

\* Lines 137-148.
CancelSignals(row) ==
    LET can_change == pct_change(row.canceled_orders, row.base_canceled_orders)
    IN  IF Geq(can_change, TH_cancel_spike_medium)
        THEN <<Signal("canceled_orders", "up",
                      IF Geq(can_change, TH_cancel_spike_high)
                      THEN "high" ELSE "medium", can_change)>>
        ELSE <<>>

\* The signals list, in the fixed order revenue, orders, AOV, cancellations.
Classify(row) ==
    RevenueSignals(row) \o OrdersSignals(row) \o AovSignals(row) \o CancelSignals(row)

\* f"{x:.k}" of a baseline: the value in units of 1/scale, rounded to nearest.
Fixed(r, scale) == PyRound(r.n * scale, r.d)

\* Lines 150-171: the payload of one evaluation.
Payload(now, cursor, row) ==
    LET signals == Classify(row)
        status == IF Len(signals) > 0 THEN "anomaly_detected" ELSE "normal"
        date_str == Strftime(row.date)
    IN  [run_time |-> now,
         sim_cursor |-> cursor,
         date |-> date_str,
         status |-> status,
         signals_count |-> Len(signals),
         signals |-> signals,
         summary |-> [date |-> date_str, status |-> status,
                      orders |-> <<row.orders_count, Fixed(row.base_orders_count, 10)>>,
                      revenue |-> <<row.revenue, Fixed(row.base_revenue, 100)>>,
                      canceled |-> <<row.canceled_orders, Fixed(row.base_canceled_orders, 10)>>,
                      aov |-> <<row.avg_order_value, Fixed(row.base_avg_order_value, 100)>>,
                      signals |-> signals]]

NoPayload == [run_time |-> 0 - 1]

\* -------------------------------------------------------------------- state
VARIABLES
    dataFile,    \* daily_ops_metrics.csv: missing, or its columns and rows
    stateFile,   \* run_state.json: absent, or what it holds
    pc,          \* where the detector process is ("idle": no process runs)
    candidates,  \* main's candidates frame
    state,       \* main's state dictionary
    cursor,      \* main's cursor
    payload,     \* main's payload, once built (and printed)
    posted,      \* how this invocation's requests.post went ("": not called)
    clock,       \* the wall clock datetime.now() reads
    pre,         \* stateFile as it was when this invocation started
    last,        \* how the previous invocation ended, with its payload
    runs,        \* invocations completed so far
    fresh,       \* whether the first invocation found no state file
    eligible,    \* the eligible days of dataFile (it never changes)
    orders,      \* olist_orders_dataset.csv: the order records
    bpc,         \* where build_daily_kpi.py is
    daily,       \* build_daily_kpi.py's daily frame
    outCsv       \* the exported daily_ops_metrics.csv (<<>>: not written)

detVars == <<dataFile, stateFile, pc, candidates, state, cursor, payload,
             posted, clock, pre, last, runs, fresh, eligible>>
buildVars == <<orders, bpc, daily, outCsv>>
vars == <<dataFile, stateFile, pc, candidates, state, cursor, payload,
          posted, clock, pre, last, runs, fresh, eligible, orders, bpc, daily,
          outCsv>>

\* ------------------------------------------------------------- input tables
Normal == <<100, 1000, 5, 20>>
Zero == <<0, 0, 0, 0>>
NoCancel == <<100, 1000, 0, 20>>
OrdersOnly == <<80, 1000, 5, 20>>

\* Values of an evaluated day: at, just inside and just outside each threshold
\* of a Normal baseline, a zero-activity day, and a day of growth.
Profiles ==
    {Normal, Zero, OrdersOnly,
     <<88, 850, 8, 17>>, <<80, 750, 11, 15>>,
     <<89, 851, 7, 18>>, <<81, 751, 10, 16>>,
     <<120, 1300, 12, 25>>}

Row(day, p) ==
    [date |-> Strftime(day), orders_count |-> p[1], revenue |-> p[2],
     canceled_orders |-> p[3], avg_order_value |-> p[4]]

\* ROLLING_DAYS rows of profile base from day start on, then the rows of tail.
Table(start, base, tail) ==
    [i \in 1..(ROLLING_DAYS + Len(tail)) |->
        Row(start + i - 1, IF i <= ROLLING_DAYS THEN base ELSE tail[i - ROLLING_DAYS])]

Reverse(s) == [i \in 1..Len(s) |-> s[Len(s) + 1 - i]]

\* Runs of up to n days that alternate a Normal day and an orders drop.
TailsUpTo(n) ==
    {[i \in 1..k |-> IF i % 2 = first THEN OrdersOnly ELSE Normal] :
        k \in 0..n, first \in {0, 1}}

\* Tables with one evaluated day: every profile on each kind of baseline.
ClassifierTables ==
    {Table(5, b, <<p>>) : b \in {Normal, Zero, NoCancel}, p \in Profiles}

\* Tables with up to MaxEval days after the baseline rows, starting 2017-01-04
\* and 2017-01-05, and one of them with its rows in descending order.
ReplayTables ==
    {Table(d, Normal, t) : d \in {4, 5}, t \in TailsUpTo(MaxEval)}
    \cup {Reverse(Table(5, Normal, <<OrdersOnly, Normal>>))}

Csv(t) == [exists |-> TRUE, columns |-> TRUE, rows |-> t]
MissingFile == [exists |-> FALSE, columns |-> FALSE, rows |-> <<>>]
MissingColumns == [exists |-> TRUE, columns |-> FALSE, rows |-> <<>>]

\* -------------------------------------------------------------- state files
\* kind: absent (no file), invalid (unreadable or not JSON), nonobject (JSON
\* that is no object), nokey (an object without "cursor"), and an object whose
\* cursor is an int (val), a float (val + 0.5), a non-numeric string or null.
File(kind, val) == [kind |-> kind, val |-> val]
Absent == File("absent", 0)
IntCursor(c) == File("int", c)

StateFiles ==
    {Absent, File("invalid", 0), File("nonobject", 0), File("nokey", 0),
     File("float", 1), File("str", 0), File("null", 0)}
    \cup {IntCursor(c) : c \in {0 - MaxEval - 1} \cup (0 - 1)..(MaxEval + 1)}

PostOutcomes == {"status", "timeout", "transport error"}

Ended(exit, p, before, sent) ==
    [exit |-> exit, payload |-> p, pre |-> before, posted |-> sent]

\* --------------------------------------------------------------------- Init
InitBuildIdle ==
    /\ orders = <<>>
    /\ bpc = "off"
    /\ daily = <<>>
    /\ outCsv = <<>>

InitDetector ==
    /\ \/ /\ dataFile \in {Csv(t) : t \in ClassifierTables}
          /\ stateFile \in {Absent, IntCursor(0), IntCursor(1)}
       \/ /\ dataFile \in {MissingFile, MissingColumns} \cup {Csv(t) : t \in ReplayTables}
          /\ stateFile \in StateFiles
    /\ eligible = IF dataFile.exists /\ dataFile.columns
                  THEN Candidates(dataFile.rows) ELSE <<>>
    /\ pc = "idle"
    /\ candidates = <<>>
    /\ state = Absent
    /\ cursor = 0
    /\ payload = NoPayload
    /\ posted = ""
    /\ clock = 0
    /\ pre = stateFile
    /\ last = Ended("none", NoPayload, stateFile, "")
    /\ runs = 0
    /\ fresh = (stateFile = Absent)

Init == InitDetector /\ InitBuildIdle

\* The detector before its first run on any of the tables, in either row order.
InitBaseline ==
    /\ dataFile \in {Csv(t) : t \in ClassifierTables \cup ReplayTables}
                    \cup {Csv(Reverse(t)) : t \in ReplayTables}
    /\ stateFile = Absent
    /\ eligible = Candidates(dataFile.rows)
    /\ pc = "idle"
    /\ candidates = <<>>
    /\ state = Absent
    /\ cursor = 0
    /\ payload = NoPayload
    /\ posted = ""
    /\ clock = 0
    /\ pre = stateFile
    /\ last = Ended("none", NoPayload, stateFile, "")
    /\ runs = 0
    /\ fresh = TRUE
    /\ InitBuildIdle

\* ------------------------------------------------------------- the detector
\* The process ends: with an exception (exit names it), killed, or "ok".
Exit(exit) ==
    /\ pc' = "idle"
    /\ last' = Ended(exit, payload', pre', posted')
    /\ candidates' = <<>>
    /\ state' = Absent
    /\ cursor' = 0

\* load_state(): no file, or one that cannot be read and parsed, is {"cursor": 0};
\* otherwise whatever JSON value the file holds.
load_state ==
    IF stateFile.kind = "absent" THEN IntCursor(0)
    ELSE IF stateFile.kind = "invalid" THEN IntCursor(0)
    ELSE stateFile

\* int(state.get("cursor", 0)): the exception it raises, or "" for none.
CursorError(st) ==
    CASE st.kind = "nonobject" -> "AttributeError"
      [] st.kind = "str" -> "ValueError"
      [] st.kind = "null" -> "TypeError"
      [] OTHER -> ""

\* int(state.get("cursor", 0)) when it raises nothing (int() truncates a float).
CursorValue(st) == IF st.kind = "nokey" THEN 0 ELSE st.val

\* Mutant of Wrap: the comparison is off by one.
Wrap_OffByOne(c, n) == IF c > n THEN 0 ELSE c

\* Lines 90-91: back to 0 once the cursor has run past the last candidate.
Wrap(c, n) == IF c >= n THEN 0 ELSE c

\* Mutant of ReadData: the state file is initialised before the table is checked.
ReadData_StateFirst ==
    /\ pc = "idle"
    /\ runs < MaxRuns
    /\ pre' = stateFile
    /\ posted' = ""
    /\ payload' = NoPayload
    /\ stateFile' = IntCursor(0)
    /\ UNCHANGED <<dataFile, clock, runs, fresh, eligible, buildVars>>
    /\ IF ~dataFile.exists THEN Exit("FileNotFoundError")
       ELSE IF ~dataFile.columns THEN Exit("ValueError: missing columns")
       ELSE IF Len(Candidates(dataFile.rows)) = 0
            THEN Exit("ValueError: no candidate rows")
       ELSE /\ pc' = "load"
            /\ candidates' = Candidates(dataFile.rows)
            /\ UNCHANGED <<state, cursor, last>>

\* Lines 59-84: a new process reads the table and builds the candidates.
ReadData ==
    /\ pc = "idle"
    /\ runs < MaxRuns
    /\ pre' = stateFile
    /\ posted' = ""
    /\ payload' = NoPayload
    /\ UNCHANGED <<dataFile, stateFile, clock, runs, fresh, eligible, buildVars>>
    /\ IF ~dataFile.exists THEN Exit("FileNotFoundError")
       ELSE IF ~dataFile.columns THEN Exit("ValueError: missing columns")
       ELSE IF Len(Candidates(dataFile.rows)) = 0
            THEN Exit("ValueError: no candidate rows")
       ELSE /\ pc' = "load"
            /\ candidates' = Candidates(dataFile.rows)
            /\ UNCHANGED <<state, cursor, last>>

\* Lines 86-91: load the state, read the cursor, wrap it.
LoadCursor ==
    /\ pc = "load"
    /\ UNCHANGED <<dataFile, stateFile, payload, posted, clock, pre, runs,
                   fresh, eligible, buildVars>>
    /\ LET st == load_state IN
       IF CursorError(st) # "" THEN Exit(CursorError(st))
       ELSE /\ state' = st
            /\ cursor' = Wrap(CursorValue(st), Len(candidates))
            /\ pc' = "eval"
            /\ UNCHANGED <<candidates, last>>

\* candidates.iloc[c]: a negative c counts from the end; 0 stands for IndexError.
IlocIndex(c, n) ==
    IF c >= 0 /\ c < n THEN c + 1
    ELSE IF c < 0 /\ c >= 0 - n THEN n + c + 1
    ELSE 0

\* Mutant of Evaluate: the cursor is persisted as soon as the payload is built.
Evaluate_SavesEarly ==
    /\ pc = "eval"
    /\ UNCHANGED <<dataFile, posted, clock, pre, runs, fresh, eligible, buildVars>>
    /\ LET i == IlocIndex(cursor, Len(candidates)) IN
       IF i = 0 THEN payload' = payload /\ stateFile' = stateFile /\ Exit("IndexError")
       ELSE /\ payload' = Payload(clock, cursor, candidates[i])
            /\ stateFile' = IntCursor(cursor + 1)
            /\ pc' = "post"
            /\ UNCHANGED <<candidates, state, cursor, last>>

\* Lines 93-174: pick the row, classify it, build and print the payload.
Evaluate ==
    /\ pc = "eval"
    /\ UNCHANGED <<dataFile, stateFile, posted, clock, pre, runs, fresh, eligible, buildVars>>
    /\ LET i == IlocIndex(cursor, Len(candidates)) IN
       IF i = 0 THEN payload' = payload /\ Exit("IndexError")
       ELSE /\ payload' = Payload(clock, cursor, candidates[i])
            /\ pc' = "post"
            /\ UNCHANGED <<candidates, state, cursor, last>>

\* Mutant of Post: a timeout or transport failure is not caught.
Post_Propagates ==
    /\ pc = "post"
    /\ UNCHANGED <<dataFile, stateFile, payload, clock, pre, runs, fresh,
                   eligible, buildVars>>
    /\ \E outcome \in PostOutcomes :
          /\ posted' = outcome
          /\ IF outcome = "status"
             THEN pc' = "save" /\ UNCHANGED <<candidates, state, cursor, last>>
             ELSE Exit("RequestException")

\* Lines 176-181: the POST answers, times out or fails in transport; each is
\* printed and the run goes on.
Post ==
    /\ pc = "post"
    /\ \E outcome \in PostOutcomes :
          /\ posted' = outcome
          /\ pc' = "save"
    /\ UNCHANGED <<dataFile, stateFile, candidates, state, cursor, payload,
                   clock, pre, last, runs, fresh, eligible, buildVars>>

\* Mutant of SaveState: the cursor is written back without the increment.
SaveState_NoIncrement ==
    /\ pc = "save"
    /\ stateFile' = IntCursor(cursor)
    /\ runs' = runs + 1
    /\ UNCHANGED <<dataFile, payload, posted, clock, pre, fresh, eligible, buildVars>>
    /\ Exit("ok")

\* Lines 183-185 and save_state: write the state with cursor + 1, then exit.
SaveState ==
    /\ pc = "save"
    /\ stateFile' = IntCursor(cursor + 1)
    /\ runs' = runs + 1
    /\ UNCHANGED <<dataFile, payload, posted, clock, pre, fresh, eligible, buildVars>>
    /\ Exit("ok")

\* The process is terminated somewhere before the final save_state call.
Kill ==
    /\ pc \in {"load", "eval", "post", "save"}
    /\ UNCHANGED <<dataFile, stateFile, payload, posted, clock, pre, runs,
                   fresh, eligible, buildVars>>
    /\ Exit("killed")

\* Time passes between invocations.
Tick ==
    /\ pc = "idle"
    /\ clock < MaxClock
    /\ clock' = clock + 1
    /\ UNCHANGED <<dataFile, stateFile, pc, candidates, state, cursor, payload,
                   posted, pre, last, runs, fresh,
                   eligible, buildVars>>

Next == ReadData \/ LoadCursor \/ Evaluate \/ Post \/ SaveState \/ Kill \/ Tick

Spec == Init /\ [][Next]_vars

\* The table stage of the detector alone: the process reads the table, builds
\* the candidates and is stopped there.
NextBaseline == ReadData \/ Kill \/ Tick

SpecBaseline == InitBaseline /\ [][NextBaseline]_vars

\* --------------------------------------------------------- build_daily_kpi.py
\* An order record: its status and its purchase day (0: the purchase timestamp
\* does not parse); its order_id is its place in the file.  The revenue
\* columns are not modelled.
\* Purchase days run from 2017-01-30 on, across the end of the month.
PurchaseDays == 30..(30 + MaxSpan)

OrderFiles ==
    UNION {[1..k -> [order_status : {"delivered", "canceled"},
                     purchase_date : {0} \cup PurchaseDays]] : k \in 1..MaxOrders}

InitBuild ==
    /\ orders \in OrderFiles
    /\ bpc = "orders"
    /\ daily = <<>>
    /\ outCsv = <<>>
    /\ dataFile = MissingFile
    /\ stateFile = Absent
    /\ eligible = <<>>
    /\ pc = "idle"
    /\ candidates = <<>>
    /\ state = Absent
    /\ cursor = 0
    /\ payload = NoPayload
    /\ posted = ""
    /\ clock = 0
    /\ pre = Absent
    /\ last = Ended("none", NoPayload, Absent, "")
    /\ runs = 0
    /\ fresh = TRUE

RECURSIVE Ascending(_)
\* The members of a set of integers, smallest first.
Ascending(S) ==
    IF S = {} THEN <<>>
    ELSE LET m == CHOOSE x \in S : \A y \in S : x <= y
         IN  <<m>> \o Ascending(S \ {m})

RECURSIVE SortByDateStr(_)
\* daily.sort_values("date") on the ISO strings, as an insertion sort.
SortByDateStr(rows) ==
    IF Len(rows) <= 1 THEN rows
    ELSE LET rest == SortByDateStr(Tail(rows))
             x == Head(rows)
             k == Cardinality({i \in 1..Len(rest) : StrLess(rest[i].date, x.date)})
         IN  SubSeq(rest, 1, k) \o <<x>> \o SubSeq(rest, k + 1, Len(rest))

\* Mutant of DateRange: the last day is left out.
DateRange_Exclusive(lo, hi) == [i \in 1..(hi - lo) |-> lo + i - 1]

\* pd.date_range(start=lo, end=hi, freq="D"): every day from lo to hi.
DateRange(lo, hi) == [i \in 1..(hi - lo + 1) |-> lo + i - 1]

\* Lines 20-85: read the orders, drop those without a purchase timestamp, and
\* count orders and cancellations per purchase date (groupby sorts its keys).
LoadAndAggregate ==
    /\ bpc = "orders"
    /\ LET kept == {i \in 1..Len(orders) : orders[i].purchase_date # 0}
           days == Ascending({orders[i].purchase_date : i \in kept})
           on(d) == {i \in kept : orders[i].purchase_date = d}
       IN  IF kept = {}
           THEN bpc' = "ValueError" /\ daily' = daily
           ELSE /\ bpc' = "combine"
                /\ daily' = [j \in 1..Len(days) |->
                      [date |-> days[j],
                       orders_count |-> Cardinality(on(days[j])),
                       canceled_orders |->
                          Cardinality({i \in on(days[j]) :
                             orders[i].order_status \in {"canceled", "unavailable"}})]]
    /\ UNCHANGED <<orders, outCsv, detVars>>

\* Lines 112-131: the dates become ISO strings and the rows are sorted by them.
Combine ==
    /\ bpc = "combine"
    /\ daily' = SortByDateStr([j \in 1..Len(daily) |->
                    [daily[j] EXCEPT !.date = Strftime(daily[j].date)]])
    /\ bpc' = "fill"
    /\ UNCHANGED <<orders, outCsv, detVars>>

\* Lines 139-174: reindex on the full calendar range, fill the missing days
\* with zeros, and turn the dates back into ISO strings.
FillCalendar ==
    /\ bpc = "fill"
    /\ LET dt == [j \in 1..Len(daily) |->
                    [daily[j] EXCEPT !.date = ToDatetime(daily[j].date)]]
           dates == {dt[j].date : j \in 1..Len(dt)}
           lo == CHOOSE x \in dates : \A y \in dates : x <= y
           hi == CHOOSE x \in dates : \A y \in dates : x >= y
           full_range == DateRange(lo, hi)
           reindexed(d) ==
               IF d \in dates
               THEN dt[CHOOSE j \in 1..Len(dt) : dt[j].date = d]
               ELSE [date |-> d, orders_count |-> 0, canceled_orders |-> 0]
       IN  daily' = [i \in 1..Len(full_range) |->
                       [reindexed(full_range[i]) EXCEPT
                           !.date = Strftime(full_range[i])]]
    /\ bpc' = "export"
    /\ UNCHANGED <<orders, outCsv, detVars>>

\* Line 185: daily.to_csv(OUT_CSV).
Export ==
    /\ bpc = "export"
    /\ outCsv' = daily
    /\ bpc' = "done"
    /\ UNCHANGED <<orders, daily, detVars>>

NextBuild == LoadAndAggregate \/ Combine \/ FillCalendar \/ Export

SpecBuild == InitBuild /\ [][NextBuild]_vars

\* ------------------------------------------------------------------ claims
NumEligible == Len(eligible)

\* The previous invocation ran to its end or to an exception (it was not killed).
Finished == pc = "idle" /\ last.exit \notin {"none", "killed"}

\* The running invocation has built its payload.
Evaluated == pc \in {"post", "save"}

\* C1: with N >= 1 eligible days and a persisted integer cursor c >= N, the
\* invocation evaluates eligible day 0, reports cursor 0 in the payload,
\* raises nothing and persists cursor 1.
C1_CursorWrap ==
    (NumEligible >= 1 /\ pre.kind = "int" /\ pre.val >= NumEligible) =>
        /\ pc = "eval" => cursor = 0
        /\ Evaluated =>
              /\ payload.sim_cursor = 0
              /\ payload.date = Strftime(eligible[1].date)
        /\ Finished =>
              /\ last.exit = "ok"
              /\ last.payload.sim_cursor = 0
              /\ last.payload.date = Strftime(eligible[1].date)
              /\ stateFile = IntCursor(1)

C1_Witness ==
    /\ Finished
    /\ NumEligible >= 2
    /\ last.pre = IntCursor(NumEligible)
    /\ last.exit = "ok"
    /\ stateFile = IntCursor(1)

\* C2: an invocation that built its payload and was not killed ends normally
\* with cursor + 1 persisted, whether the POST answered, timed out or failed.
C2_AdvanceWhateverTheSink ==
    /\ pc = "save" => posted \in PostOutcomes
    /\ (pc = "idle" /\ last.payload # NoPayload /\ last.exit # "killed") =>
          /\ last.exit = "ok"
          /\ last.posted \in PostOutcomes
          /\ stateFile = IntCursor(last.payload.sim_cursor + 1)

C2_Witness ==
    /\ Finished
    /\ last.posted = "transport error"
    /\ last.payload.sim_cursor = 1
    /\ stateFile = IntCursor(2)

\* The contents of run_state.json that are not an object with an integer cursor.
Malformed(f) ==
    f.kind \in {"absent", "invalid", "nonobject", "nokey", "float", "str", "null"}

\* C3: whatever malformed content the state file has, the invocation behaves
\* as if it held {cursor: 0}: it evaluates eligible day 0 and raises nothing.
C3_MalformedStateNeverFatal ==
    (Finished /\ NumEligible >= 1 /\ Malformed(last.pre)) =>
        /\ last.exit = "ok"
        /\ last.payload.sim_cursor = 0
        /\ last.payload.date = Strftime(eligible[1].date)
        /\ stateFile = IntCursor(1)

FatalInput ==
    {"FileNotFoundError", "ValueError: missing columns", "ValueError: no candidate rows"}

\* C4: with the input table missing, a required column missing or no eligible
\* day, the invocation aborts with the error, writes no state and posts nothing.
C4_FatalInputLeavesState ==
    (pc = "idle" /\ last.exit # "none" /\ NumEligible = 0) =>
        /\ last.exit \in FatalInput
        /\ ~dataFile.exists <=> last.exit = "FileNotFoundError"
        /\ stateFile = last.pre
        /\ last.posted = ""
        /\ last.payload = NoPayload

C4_Witness ==
    /\ pc = "idle"
    /\ last.exit = "ValueError: no candidate rows"
    /\ Len(dataFile.rows) > ROLLING_DAYS
    /\ stateFile = IntCursor(1)

\* A payload without its run_time.
Timeless(p) == [p EXCEPT !.run_time = 0]

\* C5 as stated: an invocation killed before the save leaves the persisted
\* cursor as it was, and the next invocation builds the identical payload.
C5_RerunIdenticalPayload ==
    /\ (pc = "idle" /\ last.exit = "killed") => stateFile = last.pre
    /\ (Evaluated /\ last.exit = "killed" /\ last.payload # NoPayload) =>
          payload = last.payload

\* C5 amended: the re-run evaluates the same day and builds the same payload
\* in every field other than run_time.
C5_RerunSamePayloadButRunTime ==
    /\ (pc = "idle" /\ last.exit = "killed") => stateFile = last.pre
    /\ (Evaluated /\ last.exit = "killed") => pre = last.pre
    /\ (Evaluated /\ last.exit = "killed" /\ last.payload # NoPayload) =>
          /\ payload.date = last.payload.date
          /\ payload.sim_cursor = last.payload.sim_cursor
          /\ Timeless(payload) = Timeless(last.payload)

C5_Witness ==
    /\ Evaluated
    /\ last.exit = "killed"
    /\ last.posted # ""
    /\ payload.run_time # last.payload.run_time
    /\ payload.signals_count > 0
    /\ Timeless(payload) = Timeless(last.payload)

BaseName ==
    [orders_count |-> "base_orders_count", revenue |-> "base_revenue",
     canceled_orders |-> "base_canceled_orders",
     avg_order_value |-> "base_avg_order_value"]

MetricNames == {Metrics[i] : i \in 1..Len(Metrics)}

\* Values an outlier day may take.
Outliers == {0, 1000000}

\* The rows with every metric of the row dated date replaced by v.
WithOutlier(rows, date, v) ==
    [j \in 1..Len(rows) |->
        IF rows[j].date = date
        THEN [rows[j] EXCEPT !.orders_count = v, !.revenue = v,
                             !.canceled_orders = v, !.avg_order_value = v]
        ELSE rows[j]]

\* C6: in date order, base_<metric> of row D is the mean of the metric over
\* exactly the ROLLING_DAYS rows before D and does not change when D's own
\* values change; a row with fewer rows before it has no baseline and is no
\* candidate.
C6_AntiLeakageBaseline ==
    pc = "load" =>
        LET rows == dataFile.rows
            n == Len(rows)
            rank(j) == 1 + Cardinality({k \in 1..n : StrLess(rows[k].date, rows[j].date)})
            at(i) == rows[CHOOSE j \in 1..n : rank(j) = i]
            df == WithBaselines(rows)
        IN  \A D \in 1..n :
              /\ Strftime(df[D].date) = at(D).date
              /\ \A m \in MetricNames :
                    LET b == df[D][BaseName[m]]
                        before == [j \in 1..(D - 1) |-> at(j)[m]]
                    IN  IF D > ROLLING_DAYS
                        THEN /\ b.def
                             /\ b.n * ROLLING_DAYS =
                                   b.d * SumRange(before, D - ROLLING_DAYS, D - 1)
                        ELSE /\ ~b.def
                             /\ \A i \in 1..Len(candidates) :
                                   candidates[i].date # df[D].date
              /\ \A v \in Outliers :
                    LET changed == WithBaselines(WithOutlier(rows, at(D).date, v))[D]
                    IN  \A m \in MetricNames : changed[BaseName[m]] = df[D][BaseName[m]]

\* An evaluated zero-activity day whose baseline is the 100 orders a day of
\* the seven days before it.
C6_Witness ==
    /\ pc = "load"
    /\ \E i \in 1..Len(candidates) :
          /\ candidates[i].orders_count = 0
          /\ candidates[i].base_orders_count = Rat(700, ROLLING_DAYS)
    /\ dataFile.rows[1].date = Strftime(5)

\* The candidate the running invocation evaluated.
EvaluatedRow == candidates[IlocIndex(cursor, Len(candidates))]

\* The signals of the payload for one metric.
SignalsFor(name) == SelectSeq(payload.signals, LAMBDA sg : sg.metric = name)

\* today is at most (100 - t)% of the baseline b, a positive rational.
DroppedBy(today, b, t) == b.n > 0 /\ 100 * today * b.d <= (100 - t) * b.n

\* today is at least (100 + t)% of the baseline b, a positive rational.
RaisedBy(today, b, t) == b.n > 0 /\ 100 * today * b.d >= (100 + t) * b.n

\* The signals for a metric are: none when the medium threshold is not met,
\* else exactly one, high when the high threshold is met and medium otherwise.
Graded(name, direction, medium, high) ==
    LET got == SignalsFor(name) IN
    /\ Len(got) = IF medium THEN 1 ELSE 0
    /\ medium => /\ got[1].direction = direction
                 /\ got[1].severity = IF high THEN "high" ELSE "medium"

\* C7: each metric gives exactly one signal iff its change meets the medium
\* threshold in its direction (inclusive), of severity high iff it meets the
\* high threshold; status is anomaly_detected iff there is a signal; revenue
\* 15% under its baseline is medium and 25% under is high; 80 orders on a
\* baseline of 100 is a high orders signal.
C7_SeverityClassification ==
    Evaluated =>
        LET row == EvaluatedRow IN
        /\ Graded("revenue", "down",
                  DroppedBy(row.revenue, row.base_revenue, TH_revenue_drop_medium),
                  DroppedBy(row.revenue, row.base_revenue, TH_revenue_drop_high))
        /\ Graded("orders", "down",
                  DroppedBy(row.orders_count, row.base_orders_count, TH_orders_drop_medium),
                  DroppedBy(row.orders_count, row.base_orders_count, TH_orders_drop_high))
        /\ Graded("avg_order_value", "down",
                  DroppedBy(row.avg_order_value, row.base_avg_order_value, TH_aov_drop_medium),
                  DroppedBy(row.avg_order_value, row.base_avg_order_value, TH_aov_drop_high))
        /\ Graded("canceled_orders", "up",
                  RaisedBy(row.canceled_orders, row.base_canceled_orders, TH_cancel_spike_medium),
                  RaisedBy(row.canceled_orders, row.base_canceled_orders, TH_cancel_spike_high))
        /\ payload.signals_count = Len(payload.signals)
        /\ payload.status = IF Len(payload.signals) > 0 THEN "anomaly_detected" ELSE "normal"
        /\ Len(payload.signals) =
              Len(SignalsFor("revenue")) + Len(SignalsFor("orders"))
              + Len(SignalsFor("avg_order_value")) + Len(SignalsFor("canceled_orders"))
        /\ (row.base_revenue = Rat(7000, ROLLING_DAYS) /\ row.revenue = 850) =>
              SignalsFor("revenue")[1].severity = "medium"
        /\ (row.base_revenue = Rat(7000, ROLLING_DAYS) /\ row.revenue <= 750) =>
              SignalsFor("revenue")[1].severity = "high"
        /\ (row.base_orders_count = Rat(700, ROLLING_DAYS) /\ row.orders_count = 80) =>
              /\ SignalsFor("orders")[1].severity = "high"
              /\ payload.status = "anomaly_detected"

\* Every metric sits exactly on its medium threshold.
C7_Witness ==
    /\ Evaluated
    /\ EvaluatedRow.revenue = 850
    /\ EvaluatedRow.base_revenue = Rat(7000, ROLLING_DAYS)
    /\ payload.signals_count = 4
    /\ \A i \in 1..4 : payload.signals[i].severity = "medium"

\* C9: a metric whose baseline is zero gives no signal, whatever its value;
\* the percentage change on a zero or undefined baseline is 0.
C9_ZeroBaselineNoSignal ==
    Evaluated =>
        LET row == EvaluatedRow IN
        /\ row.base_revenue.n = 0 => Len(SignalsFor("revenue")) = 0
        /\ row.base_orders_count.n = 0 => Len(SignalsFor("orders")) = 0
        /\ row.base_avg_order_value.n = 0 => Len(SignalsFor("avg_order_value")) = 0
        /\ row.base_canceled_orders.n = 0 => Len(SignalsFor("canceled_orders")) = 0
        /\ \A m \in MetricNames :
              row[BaseName[m]].n = 0 =>
                 /\ pct_change(row[m], row[BaseName[m]]) = Rat(0, 1)
                 /\ pct_change(row[m], NaN) = Rat(0, 1)

\* Cancellations rise from a baseline of zero and nothing is signalled.
C9_Witness ==
    /\ Evaluated
    /\ EvaluatedRow.canceled_orders = 12
    /\ EvaluatedRow.base_canceled_orders = Rat(0, ROLLING_DAYS)
    /\ Len(SignalsFor("canceled_orders")) = 0

\* C10: from no state file and N >= 1 eligible days, the invocation that
\* follows k completed ones evaluates eligible day k mod N, the persisted
\* cursor is in 1..N from the first completed run on, and no invocation raises.
C10_PerpetualReplay ==
    (fresh /\ NumEligible >= 1) =>
        /\ last.exit \in {"none", "ok", "killed"}
        /\ Evaluated =>
              /\ payload.sim_cursor = runs % NumEligible
              /\ payload.date = Strftime(eligible[(runs % NumEligible) + 1].date)
        /\ runs = 0 => stateFile = Absent
        /\ runs >= 1 =>
              /\ stateFile.kind = "int"
              /\ stateFile.val \in 1..NumEligible
              /\ stateFile.val = ((runs - 1) % NumEligible) + 1
        /\ \A i \in 1..(NumEligible - 1) : eligible[i].date < eligible[i + 1].date

\* The second replay of the first of three days.
C10_Witness ==
    /\ fresh
    /\ NumEligible >= 3
    /\ runs = 2 * NumEligible
    /\ Evaluated
    /\ payload.sim_cursor = 0
    /\ stateFile = IntCursor(NumEligible)

\* The purchase days of the orders whose timestamp parses.
ValidDays == {orders[i].purchase_date : i \in 1..Len(orders)} \ {0}

\* C8: the exported table has one row for each calendar day from the first
\* to the last purchase day, in ascending order, no day missing, twice or
\* outside the range; a day without orders is a row of zeros.
C8_CalendarGapFill ==
    /\ ValidDays = {} => bpc \in {"orders", "ValueError"}
    /\ bpc = "done" =>
          LET lo == CHOOSE x \in ValidDays : \A y \in ValidDays : x <= y
              hi == CHOOSE x \in ValidDays : \A y \in ValidDays : x >= y
          IN  /\ Len(outCsv) = hi - lo + 1
              /\ \A i \in 1..Len(outCsv) :
                    /\ outCsv[i].date = Strftime(lo + i - 1)
                    /\ (lo + i - 1) \notin ValidDays => outCsv[i].orders_count = 0
                    /\ (lo + i - 1) \in ValidDays => outCsv[i].orders_count > 0
              /\ \A i, j \in 1..Len(outCsv) :
                    i < j => StrLess(outCsv[i].date, outCsv[j].date)

\* Orders on 2017-01-30 and 2017-02-02 only: four rows, two of them gap days.
C8_Witness ==
    /\ bpc = "done"
    /\ Len(outCsv) = 4
    /\ outCsv[1].date = <<2017, 1, 30>>
    /\ outCsv[4].date = <<2017, 2, 2>>
    /\ outCsv[2].orders_count = 0
    /\ outCsv[3].orders_count = 0

=============================================================================
